---- MODULE Spec2Model ----
(***************************************************************************)
(* Beam solver of mechanik_app: mesh generation, load assembly, shear and  *)
(* moment integration, deflection integration and the stress field.        *)
(*                                                                         *)
(* The routines are numpy routines over floating-point arrays.  They are   *)
(* modelled here over exact rationals (reduced fractions n/d, d > 0), so   *)
(* every equality below is an equality of real numbers: rounding of the    *)
(* binary floating-point format is outside the model.  Arrays are          *)
(* sequences indexed from 1 (numpy index i is index i+1 here).             *)
(***************************************************************************)
EXTENDS Integers, Sequences, FiniteSets, TLC

VARIABLES
    pc,             \* position in the computation
    length,         \* beam length L handed to the routines
    nodes,          \* requested node count
    x,              \* mesh returned by discretize
    error,          \* exception raised by the routine under study ("none" if none)
    segments_df,    \* segment-load table (rows of the data editor), or None
    point_df,       \* point-load table (rows of the data editor), or None
    q_a,            \* distributed-load array of load set A
    loads_a,        \* point-load list of load set A
    q_b,            \* distributed-load array of load set B
    loads_b,        \* point-load list of load set B
    q_profile,      \* distributed-load array handed to the solver
    point_loads,    \* point-load list handed to the solver
    shear,          \* shear array of the current solve
    moment,         \* moment array of the current solve
    curvature,      \* curvature array of the current solve
    rotation,       \* rotation (slope) array of the current solve
    deflection,     \* deflection array of the current solve
    shear_gamma,    \* shear-strain array of the current solve
    youngs,         \* Young's modulus E
    inertia,        \* second moment of area I
    area,           \* cross-section area A
    shear_modulus,  \* shear modulus G
    shear_coeff,    \* shear-correction factor kappa
    theory,         \* beam theory selector
    section_height, \* section height h
    points,         \* number of height samples asked of stress_field
    y_mm,           \* height grid returned by stress_field
    stress_map      \* stress matrix returned by stress_field

vars == <<pc, length, nodes, x, error, segments_df, point_df, q_a, loads_a,
          q_b, loads_b, q_profile, point_loads, shear, moment, curvature, rotation, deflection, shear_gamma, youngs, inertia, area,
          shear_modulus, shear_coeff, theory, section_height, points, y_mm,
          stress_map>>

(***************************************************************************)
(* Exact rational arithmetic standing for the float arithmetic of numpy.   *)
(***************************************************************************)
Abs(a) == IF a < 0 THEN -a ELSE a

RECURSIVE GCD(_, _)
GCD(a, b) == IF b = 0 THEN a ELSE GCD(b, a % b)

\* The fraction n/d in lowest terms with a positive denominator (d # 0).
Rat(n, d) ==
    LET g == GCD(Abs(n), Abs(d))
        s == IF d < 0 THEN -1 ELSE 1
    IN  [n |-> (s * n) \div g, d |-> (s * d) \div g]

RInt(k) == [n |-> k, d |-> 1]
RZero == RInt(0)
RAdd(a, b) ==
    LET g == GCD(a.d, b.d)
    IN  Rat(a.n * (b.d \div g) + b.n * (a.d \div g), (a.d \div g) * b.d)
RNeg(a) == [n |-> -a.n, d |-> a.d]
RSub(a, b) == RAdd(a, RNeg(b))
RMul(a, b) ==
    LET g1 == GCD(Abs(a.n), b.d)
        g2 == GCD(Abs(b.n), a.d)
    IN  Rat((a.n \div g1) * (b.n \div g2), (a.d \div g2) * (b.d \div g1))
\* a / b for b # 0.
RDiv(a, b) == RMul(a, Rat(b.d, b.n))
RLe(a, b) == a.n * b.d <= b.n * a.d
RLt(a, b) == a.n * b.d < b.n * a.d
RAbs(a) == [n |-> Abs(a.n), d |-> a.d]
RMin(a, b) == IF RLe(a, b) THEN a ELSE b
RMax(a, b) == IF RLe(a, b) THEN b ELSE a
RHalf == Rat(1, 2)

\* numpy elementwise operations on arrays of equal length.
VAdd(u, v) == [i \in 1..Len(u) |-> RAdd(u[i], v[i])]
VMul(u, v) == [i \in 1..Len(u) |-> RMul(u[i], v[i])]
\* Mutant of Zeros: np.ones_like where np.zeros_like is meant.
OnesLike(k) == [i \in 1..k |-> [n |-> 1, d |-> 1]]
Zeros(k) == [i \in 1..k |-> RZero]

\* np.cumsum: running sums of an array.
RECURSIVE CumSum(_)
CumSum(v) ==
    IF Len(v) = 0 THEN <<>>
    ELSE LET head == CumSum(SubSeq(v, 1, Len(v) - 1))
         IN  Append(head, IF Len(v) = 1 THEN v[1]
                          ELSE RAdd(head[Len(v) - 1], v[Len(v)]))

\* Python's sum over a list of numbers.
RECURSIVE RSum(_)
RSum(v) == IF Len(v) = 0 THEN RZero ELSE RAdd(RSum(SubSeq(v, 1, Len(v) - 1)), v[Len(v)])

(***************************************************************************)
(* Mesh generator.                                                         *)
(***************************************************************************)
\* np.linspace(start, stop, num): num < 0 raises ValueError; otherwise num
\* samples start + i*step with step = (stop - start)/(num - 1), the last one
\* set to stop; a single sample is start.
LinspaceRaises(num) == num < 0
Linspace(start, stop, num) ==
    [i \in 1..num |->
        IF num > 1 /\ i = num THEN stop
        ELSE IF num = 1 THEN start
        ELSE RAdd(start, RMul(RInt(i - 1), RDiv(RSub(stop, start), RInt(num - 1))))]

\* discretize(length, nodes): no check of its own; the mesh is whatever
\* np.linspace(0.0, length, nodes) returns, the error whatever it raises.
discretize(len, num) == Linspace(RZero, len, num)
discretize_error(len, num) == IF LinspaceRaises(num) THEN "ValueError" ELSE "none"

(***************************************************************************)
(* Internal-force integrator.                                              *)
(***************************************************************************)
\* cumulative_trapezoid(values, x): [0] followed by the running sums of
\* 0.5*(values[i] + values[i+1])*(x[i+1] - x[i]).
TrapezoidTerms(values, xs) ==
    [i \in 1..(Len(xs) - 1) |->
        RMul(RMul(RHalf, RAdd(values[i], values[i + 1])), RSub(xs[i + 1], xs[i]))]
cumulative_trapezoid(values, xs) == <<RZero>> \o CumSum(TrapezoidTerms(values, xs))

\* np.trapz(y, x): sum of diff(x)*(y[1:] + y[:-1])/2.
trapz(ys, xs) ==
    RSum([i \in 1..(Len(xs) - 1) |->
            RMul(RSub(xs[i + 1], xs[i]), RMul(RAdd(ys[i + 1], ys[i]), RHalf))])

\* A point load is the tuple (load, position, label).
LoadOf(pl) == pl[1]
PositionOf(pl) == pl[2]
LabelOf(pl) == pl[3]

\* Mutant of StepAt: the strict comparison x > position.
StepAtStrict(xs, pl) ==
    [i \in 1..Len(xs) |-> IF RLt(pl[2], xs[i]) THEN pl[1] ELSE RZero]

\* load * (x >= position): the load at every node at or right of the position.
StepAt(xs, pl) ==
    [i \in 1..Len(xs) |-> IF RLe(PositionOf(pl), xs[i]) THEN LoadOf(pl) ELSE RZero]

\* Mutant of PointCumulative: the loop assigns (=) where it should add (+=).
PointCumulativeOverwrite(xs, pls) ==
    IF Len(pls) = 0 THEN Zeros(Len(xs))
    ELSE [i \in 1..Len(xs) |->
            IF RLe(pls[Len(pls)][2], xs[i]) THEN pls[Len(pls)][1] ELSE RZero]

\* The loop point_cumulative += load * (x >= position) over the point loads.
RECURSIVE PointCumulative(_, _)
PointCumulative(xs, pls) ==
    IF Len(pls) = 0 THEN Zeros(Len(xs))
    ELSE VAdd(PointCumulative(xs, SubSeq(pls, 1, Len(pls) - 1)), StepAt(xs, pls[Len(pls)]))

\* Mutant of Reaction: the point loads are left out of the resultant.
ReactionDistributedOnly(xs, q, pls) ==
    cumulative_trapezoid(q, xs)[Len(xs)]

Reaction(xs, q, pls) ==
    LET dist_integral == cumulative_trapezoid(q, xs)
        total_distributed == dist_integral[Len(dist_integral)]
        point_total == RSum([k \in 1..Len(pls) |-> LoadOf(pls[k])])
    IN  RAdd(total_distributed, point_total)

ShearOf(xs, q, pls) ==
    LET dist_integral == cumulative_trapezoid(q, xs)
        reaction == Reaction(xs, q, pls)
        point_cumulative == PointCumulative(xs, pls)
    IN  [i \in 1..Len(xs) |->
            RSub(RSub(reaction, dist_integral[i]), point_cumulative[i])]

\* Mutant of MomentRoot: the point loads are left out of the root moment.
MomentRootDistributedOnly(xs, q, pls) ==
    trapz(VMul(q, xs), xs)

MomentRoot(xs, q, pls) ==
    RAdd(trapz(VMul(q, xs), xs),
         RSum([k \in 1..Len(pls) |-> RMul(LoadOf(pls[k]), PositionOf(pls[k]))]))

MomentOf(xs, q, pls) ==
    LET sh == ShearOf(xs, q, pls)
        moment_root == MomentRoot(xs, q, pls)
        integral == <<RZero>> \o CumSum(TrapezoidTerms(sh, xs))
    IN  [i \in 1..Len(xs) |-> RSub(moment_root, integral[i])]

\* shear_moment(x, q_profile, point_loads) -> (shear, moment)
shear_moment(xs, q, pls) == <<ShearOf(xs, q, pls), MomentOf(xs, q, pls)>>

(***************************************************************************)
(* Deflection integrator (Euler-Bernoulli, the one solver.py defines).     *)
(***************************************************************************)
\* Mutant of Curvature: the moment is divided by the modulus alone.
CurvatureNoInertia(mom, E, I) == [i \in 1..Len(mom) |-> RDiv(mom[i], E)]

\* curvature = moment / (youngs * inertia)
Curvature(mom, E, I) == [i \in 1..Len(mom) |-> RDiv(mom[i], RMul(E, I))]

\* Mutant of DeflectionLoop: the deflection step takes slope[i]*dx instead
\* of the trapezoid 0.5*(slope[i] + slope[i-1])*dx.
RECURSIVE DeflectionLoopRectangle(_, _, _)
DeflectionLoopRectangle(xs, curv, i) ==
    IF i <= 1 THEN [slope |-> Zeros(Len(curv)), deflection |-> Zeros(Len(curv))]
    ELSE LET prev == DeflectionLoopRectangle(xs, curv, i - 1)
             dx == RSub(xs[i], xs[i - 1])
             s == RAdd(prev.slope[i - 1],
                       RMul(RMul(RHalf, RAdd(curv[i], curv[i - 1])), dx))
             w == RAdd(prev.deflection[i - 1], RMul(s, dx))
         IN  [slope |-> [k \in 1..Len(curv) |-> IF k = i THEN s ELSE prev.slope[k]],
              deflection |->
                  [k \in 1..Len(curv) |-> IF k = i THEN w ELSE prev.deflection[k]]]

\* The loop of integrate_deflection run up to array index i (slope and
\* deflection start as zero arrays; index 1 is never written).
RECURSIVE DeflectionLoop(_, _, _)
DeflectionLoop(xs, curv, i) ==
    IF i <= 1 THEN [slope |-> Zeros(Len(curv)), deflection |-> Zeros(Len(curv))]
    ELSE LET prev == DeflectionLoop(xs, curv, i - 1)
             dx == RSub(xs[i], xs[i - 1])
             s == RAdd(prev.slope[i - 1],
                       RMul(RMul(RHalf, RAdd(curv[i], curv[i - 1])), dx))
             w == RAdd(prev.deflection[i - 1],
                       RMul(RMul(RHalf, RAdd(s, prev.slope[i - 1])), dx))
         IN  [slope |-> [k \in 1..Len(curv) |-> IF k = i THEN s ELSE prev.slope[k]],
              deflection |->
                  [k \in 1..Len(curv) |-> IF k = i THEN w ELSE prev.deflection[k]]]

\* integrate_deflection(x, moment, youngs, inertia) -> (curvature, slope, deflection)
integrate_deflection(xs, mom, E, I) ==
    LET curv == Curvature(mom, E, I)
        r == DeflectionLoop(xs, curv, Len(xs))
    IN  <<curv, r.slope, r.deflection>>

(***************************************************************************)
(* Deflection integrator with a theory selector, as main() calls it:       *)
(* integrate_deflection(x, moment, shear, E, I, A, G, kappa, theory)       *)
(* -> (curvature, rotation, deflection, shear strain).  solver.py holds no *)
(* such body; this one follows section 4.4 of the specification.           *)
(***************************************************************************)
ShearStrain(sh, A, G, kappa, th) ==
    [i \in 1..Len(sh) |->
        IF th = "Timoshenko" THEN RDiv(RMul(kappa, sh[i]), RMul(G, A)) ELSE RZero]

integrate_deflection_theory(xs, mom, sh, E, I, A, G, kappa, th) ==
    LET curv == [i \in 1..Len(mom) |-> RDiv(mom[i], RMul(E, I))]
        rot == cumulative_trapezoid(curv, xs)
        bending == cumulative_trapezoid(rot, xs)
        gamma == ShearStrain(sh, A, G, kappa, th)
        total == IF th = "Timoshenko"
                 THEN VAdd(bending, cumulative_trapezoid(gamma, xs))
                 ELSE bending
    IN  <<curv, rot, total, gamma>>

(***************************************************************************)
(* Stress mapper.                                                          *)
(***************************************************************************)
\* Number of height samples stress_field takes by default.
DefaultPoints == 120
MmPerM == 1000
PaPerMPa == 1000000

StressDegenerate(h, I) == RLe(h, RZero) \/ RLe(I, RZero)

\* Mutant of stress_field: the degenerate branch sized like the regular one.
stress_field_full_rows(mom, h, I, pts) ==
    IF StressDegenerate(h, I)
    THEN <<Zeros(pts), [r \in 1..pts |-> Zeros(Len(mom))]>>
    ELSE LET y == Linspace(RNeg(RMul(h, RHalf)), RMul(h, RHalf), pts)
         IN  <<[r \in 1..pts |-> RMul(y[r], RInt(MmPerM))],
               [r \in 1..pts |->
                   [c \in 1..Len(mom) |->
                       RDiv(RDiv(RMul(y[r], mom[c]), I), RInt(PaPerMPa))]]>>

\* stress_field(moment, section_height, inertia, points) -> (y in mm, stress in MPa)
stress_field(mom, h, I, pts) ==
    IF StressDegenerate(h, I)
    THEN <<<<RZero>>, <<Zeros(Len(mom))>>>>
    ELSE LET y == Linspace(RNeg(RMul(h, RHalf)), RMul(h, RHalf), pts)
             stress == [r \in 1..pts |->
                          [c \in 1..Len(mom) |-> RDiv(RMul(y[r], mom[c]), I)]]
         IN  <<[r \in 1..pts |-> RMul(y[r], RInt(MmPerM))],
               [r \in 1..pts |->
                   [c \in 1..Len(mom) |-> RDiv(stress[r][c], RInt(PaPerMPa))]]>>

(***************************************************************************)
(* Load assembler.                                                         *)
(***************************************************************************)
\* An editor table is a pandas DataFrame, or None: a flag and the rows.
None == [present |-> FALSE, rows |-> <<>>]
DataFrame(rows) == [present |-> TRUE, rows |-> rows]
NPerKN == 1000

\* Mutant of Clip01: only the lower limit is applied.
ClipLowerOnly(v) == RMax(v, RZero)

\* np.clip(v, 0.0, 1.0)
Clip01(v) == RMin(RMax(v, RZero), RInt(1))

\* uniform_profile(x, length, enabled, magnitude, span)
uniform_profile(xs, len, enabled, magnitude, span) ==
    LET start == RMul(RMin(span[1], span[2]), len)
        end == RMul(RMax(span[1], span[2]), len)
    IN  [i \in 1..Len(xs) |->
            IF enabled /\ magnitude # RZero /\ RLe(start, xs[i]) /\ RLe(xs[i], end)
            THEN magnitude ELSE RZero]

\* Mutant of SegmentRow: start and end are not put in order.
SegmentRowUnordered(xs, len, profile, row) ==
    IF ~row.enabled THEN profile
    ELSE [i \in 1..Len(xs) |->
             IF /\ RLe(RMul(Clip01(row.start), len), xs[i])
                /\ RLe(xs[i], RMul(Clip01(row.end), len))
             THEN RAdd(profile[i], RMul(row.magnitude, RInt(NPerKN)))
             ELSE profile[i]]

\* One pass of the loop of segmented_profile over a row.
SegmentRow(xs, len, profile, row) ==
    IF ~row.enabled THEN profile
    ELSE LET s0 == RMul(Clip01(row.start), len)
             e0 == RMul(Clip01(row.end), len)
             start == IF RLt(e0, s0) THEN e0 ELSE s0
             end == IF RLt(e0, s0) THEN s0 ELSE e0
             magnitude == RMul(row.magnitude, RInt(NPerKN))
         IN  [i \in 1..Len(xs) |->
                 IF RLe(start, xs[i]) /\ RLe(xs[i], end)
                 THEN RAdd(profile[i], magnitude) ELSE profile[i]]

RECURSIVE SegmentLoop(_, _, _)
SegmentLoop(xs, len, rows) ==
    IF Len(rows) = 0 THEN Zeros(Len(xs))
    ELSE SegmentRow(xs, len, SegmentLoop(xs, len, SubSeq(rows, 1, Len(rows) - 1)),
                    rows[Len(rows)])

\* segmented_profile(x, length, segments_df)
segmented_profile(xs, len, df) ==
    IF df = None \/ df.rows = <<>> THEN Zeros(Len(xs)) ELSE SegmentLoop(xs, len, df.rows)

\* Mutant of PointRow: the position fraction is not clipped to [0, 1].
PointRowUnclipped(len, loads, row) ==
    IF ~row.enabled \/ row.magnitude = RZero THEN loads
    ELSE Append(loads, <<RMul(row.magnitude, RInt(NPerKN)),
                         RMul(row.position, len), row.label>>)

\* One pass of the loop of point_loads_from_editor over a row.
PointRow(len, loads, row) ==
    IF ~row.enabled THEN loads
    ELSE LET magnitude == RMul(row.magnitude, RInt(NPerKN))
         IN  IF magnitude = RZero THEN loads
             ELSE Append(loads, <<magnitude, RMul(Clip01(row.position), len), row.label>>)

RECURSIVE PointLoop(_, _)
PointLoop(len, rows) ==
    IF Len(rows) = 0 THEN <<>>
    ELSE PointRow(len, PointLoop(len, SubSeq(rows, 1, Len(rows) - 1)), rows[Len(rows)])

\* point_loads_from_editor(df, length)
point_loads_from_editor(df, len) ==
    IF df = None \/ df.rows = <<>> THEN <<>> ELSE PointLoop(len, df.rows)

(***************************************************************************)
(* Inputs the routines are exercised on.                                   *)
(***************************************************************************)
MaxNodes == 3       \* largest node count of a mesh
MaxStressNodes == 5 \* largest node count of a mesh handed to the stress mapper
MaxLength == 8      \* largest length handed to discretize
MaxLoads == 1       \* most point loads in load set A
MaxRows == 2        \* most rows in an editor table

Fractions == {RZero, Rat(1, 2), Rat(5, 8), RInt(1)}
QValues == {RZero, RInt(1000)}

\* Sequences over S of length at most k.
SeqUpTo(S, k) == UNION {[1..m -> S] : m \in 0..k}

(***************************************************************************)
(* Values of the variables a computation does not use.                     *)
(***************************************************************************)
NoTables == segments_df = None /\ point_df = None
NoParts == q_a = <<>> /\ loads_a = <<>> /\ q_b = <<>> /\ loads_b = <<>>
NoForces == shear = <<>> /\ moment = <<>>
NoDeflection ==
    curvature = <<>> /\ rotation = <<>> /\ deflection = <<>> /\ shear_gamma = <<>>
NoStress == y_mm = <<>> /\ stress_map = <<>>
NoShearTheory ==
    /\ area = RInt(1) /\ shear_modulus = RInt(1) /\ shear_coeff = RInt(1)
    /\ theory = "Euler-Bernoulli"
NoSection == section_height = RInt(1) /\ points = DefaultPoints

(***************************************************************************)
(* The solver on the union of two load sets A and B.                       *)
(***************************************************************************)
InitSolve ==
    /\ pc = "loads"
    /\ length = RInt(2)
    /\ nodes \in 2..MaxNodes
    /\ x = discretize(length, nodes)
    /\ error = "none"
    /\ NoTables
    /\ q_a \in [1..nodes -> QValues]
    /\ loads_a \in SeqUpTo({<<RInt(1000), RZero, "P1">>,
                             <<RInt(-2000), RMul(Rat(5, 8), length), "P2">>}, MaxLoads)
    /\ q_b \in {uniform_profile(x, length, en, RInt(3000), <<RInt(1), Rat(1, 2)>>) :
                  en \in BOOLEAN}
    /\ loads_b \in SeqUpTo({<<RInt(3000), RMul(f, length), "Q">> : f \in Fractions}, 1)
    /\ q_profile = VAdd(q_a, q_b)
    /\ point_loads = loads_a \o loads_b
    /\ NoForces /\ NoDeflection /\ NoStress
    /\ youngs = RInt(2) /\ inertia = Rat(1, 3)
    /\ NoShearTheory /\ NoSection

\* shear, moment = shear_moment(x, q_profile, point_loads)
ShearMoment ==
    /\ pc = "loads"
    /\ LET r == shear_moment(x, q_profile, point_loads)
       IN  shear' = r[1] /\ moment' = r[2]
    /\ pc' = "forces"
    /\ UNCHANGED <<length, nodes, x, error, segments_df, point_df, q_a, loads_a,
                   q_b, loads_b, q_profile, point_loads, curvature, rotation,
                   deflection, shear_gamma, youngs, inertia, area, shear_modulus,
                   shear_coeff, theory, section_height, points, y_mm, stress_map>>

\* curvature, rotation, deflection = integrate_deflection(x, moment, E, I)
IntegrateDeflection ==
    /\ pc = "forces"
    /\ LET r == integrate_deflection(x, moment, youngs, inertia)
       IN  curvature' = r[1] /\ rotation' = r[2] /\ deflection' = r[3]
    /\ pc' = "deflected"
    /\ UNCHANGED <<length, nodes, x, error, segments_df, point_df, q_a, loads_a,
                   q_b, loads_b, q_profile, point_loads, shear, moment,
                   shear_gamma, youngs, inertia, area, shear_modulus,
                   shear_coeff, theory, section_height, points, y_mm, stress_map>>

NextSolve == ShearMoment \/ IntegrateDeflection
SpecSolve == InitSolve /\ [][NextSolve]_vars

(***************************************************************************)
(* Properties of the solver.                                               *)
(***************************************************************************)
IsZeroArray(v, k) == Len(v) = k /\ \A i \in 1..k : v[i] = RZero
ZeroLoadInput == IsZeroArray(q_profile, nodes) /\ point_loads = <<>>

\* C1 (zero-load invariant): when the distributed-load array is all zero and
\* the point-load list is empty, shear_moment returns zero shear and zero
\* moment at every mesh point, and integrate_deflection on that moment
\* returns zero rotation and zero deflection at every mesh point.
C1_ZeroLoad ==
    ZeroLoadInput =>
        /\ pc \in {"forces", "deflected"} =>
              IsZeroArray(shear, nodes) /\ IsZeroArray(moment, nodes)
        /\ pc = "deflected" =>
              IsZeroArray(rotation, nodes) /\ IsZeroArray(deflection, nodes)
C1_Witness ==
    /\ pc = "deflected" /\ ZeroLoadInput /\ nodes = MaxNodes
    /\ IsZeroArray(shear, nodes) /\ IsZeroArray(deflection, nodes)

\* Results of the solver on load set A alone and on load set B alone.
ShearA == ShearOf(x, q_a, loads_a)
ShearB == ShearOf(x, q_b, loads_b)
MomentA == MomentOf(x, q_a, loads_a)
MomentB == MomentOf(x, q_b, loads_b)
DeflectionA == integrate_deflection(x, MomentA, youngs, inertia)
DeflectionB == integrate_deflection(x, MomentB, youngs, inertia)

\* C2 (superposition): shear and moment of the combined load set (qA + qB,
\* point loads A followed by point loads B) equal, at every mesh point, the
\* sum of the results on A and on B; rotation and deflection integrated
\* from the combined moment equal the sums of those of A and of B.
C2_Superposition ==
    /\ pc = "forces" =>
          /\ shear = VAdd(ShearA, ShearB)
          /\ moment = VAdd(MomentA, MomentB)
    /\ pc = "deflected" =>
          /\ rotation = VAdd(DeflectionA[2], DeflectionB[2])
          /\ deflection = VAdd(DeflectionA[3], DeflectionB[3])
C2_Witness ==
    /\ pc = "deflected"
    /\ loads_a # <<>> /\ loads_b # <<>>
    /\ ~IsZeroArray(q_a, nodes) /\ ~IsZeroArray(q_b, nodes)
    /\ ~IsZeroArray(deflection, nodes)
    /\ deflection = VAdd(DeflectionA[3], DeflectionB[3])

\* Load set B is one added point load and nothing else.
OneLoadAdded == IsZeroArray(q_b, nodes) /\ Len(loads_b) = 1
AddedLoad == LoadOf(loads_b[1])
AddedPosition == PositionOf(loads_b[1])
\* The drop of an array across node i (from node i-1 to node i).
Drop(v, i) == RSub(v[i - 1], v[i])
\* How much the drop across node i grew when the load was added.
DropGrowth(i) == RSub(Drop(shear, i), Drop(ShearA, i))
\* The first mesh node at or to the right of position p.
FirstNodeFrom(p) ==
    CHOOSE k \in 1..nodes : RLe(p, x[k]) /\ \A j \in 1..(k - 1) : RLt(x[j], p)
\* The mesh nodes nearest to position p.
NearestNodes(p) ==
    {k \in 1..nodes :
        \A j \in 1..nodes : RLe(RAbs(RSub(x[k], p)), RAbs(RSub(x[j], p)))}

\* C3 as stated (jump at the node at p, or else at the node nearest p): the
\* drop across that node grows by exactly P, every other drop is unchanged.
C3_JumpAtNearestNode ==
    (pc = "forces" /\ OneLoadAdded) =>
        \E k \in NearestNodes(AddedPosition) :
            \A i \in 2..nodes :
                DropGrowth(i) = IF i = k THEN AddedLoad ELSE RZero

\* C3 as amended (discontinuity at a point load): adding one point load P
\* at p in [0, L] makes the drop shear[i-1] - shear[i] grow by exactly P
\* across the first mesh node i with x[i] >= p (the node at p, else the next
\* node to its right) and leaves the drop across every other pair of
\* adjacent nodes unchanged; for p = 0 that node is the first one and no
\* drop changes.
C3_JumpAtNextNode ==
    (pc = "forces" /\ OneLoadAdded) =>
        \A i \in 2..nodes :
            DropGrowth(i) =
                IF i = FirstNodeFrom(AddedPosition) THEN AddedLoad ELSE RZero
C3_Witness ==
    /\ pc = "forces" /\ OneLoadAdded /\ nodes = MaxNodes
    /\ loads_a # <<>> /\ ~IsZeroArray(q_a, nodes)
    /\ FirstNodeFrom(AddedPosition) \notin NearestNodes(AddedPosition)
    /\ DropGrowth(FirstNodeFrom(AddedPosition)) = AddedLoad

\* The point loads of the solved load set that sit exactly at x = 0.
LoadsAtOrigin ==
    RSum([k \in 1..Len(point_loads) |->
            IF PositionOf(point_loads[k]) = RZero
            THEN LoadOf(point_loads[k]) ELSE RZero])
\* Trapezoidal integral of the distributed load over the span plus all
\* point-load magnitudes.
Resultant ==
    RAdd(trapz(q_profile, x),
         RSum([k \in 1..Len(point_loads) |-> LoadOf(point_loads[k])]))

\* C4 (equilibrium at the near end): the first shear value equals the
\* resultant reaction minus the point loads positioned exactly at x = 0.
C4_NearEndShear ==
    pc = "forces" => shear[1] = RSub(Resultant, LoadsAtOrigin)
C4_Witness ==
    /\ pc = "forces"
    /\ LoadsAtOrigin # RZero
    /\ \E k \in 1..Len(point_loads) : PositionOf(point_loads[k]) # RZero
    /\ ~IsZeroArray(q_profile, nodes)
    /\ shear[1] # Resultant
    /\ shear[1] = RSub(Resultant, LoadsAtOrigin)

(***************************************************************************)
(* The stress mapper on the moment field of a point load.                  *)
(***************************************************************************)
Heights == {Rat(-1, 2), RZero, Rat(2, 5), RInt(1)}
Inertias == {RInt(-1), RZero, Rat(2, 3125), Rat(1, 2)}

InitStress ==
    /\ pc = "loads"
    /\ length \in {RInt(2), RInt(8)}
    /\ nodes \in 2..MaxStressNodes
    /\ x = discretize(length, nodes)
    /\ error = "none"
    /\ NoTables /\ NoParts
    /\ q_profile = Zeros(nodes)
    /\ point_loads \in SeqUpTo({<<m, RMul(f, length), "P1">> :
                                  m \in {RInt(1000), RInt(120000)},
                                  f \in {Rat(1, 2), Rat(5, 8)}}, 1)
    /\ NoForces /\ NoDeflection /\ NoStress
    /\ youngs = RInt(2)
    /\ inertia \in Inertias
    /\ section_height \in Heights
    /\ points \in {3, DefaultPoints}
    \* The 120-row grid is paired with the small load only: the fractions of
    \* the large one on that grid leave the range of 32-bit integers.
    /\ points = DefaultPoints =>
           \A k \in 1..Len(point_loads) : LoadOf(point_loads[k]) = RInt(1000)
    /\ NoShearTheory

\* y_mm, stress_map = stress_field(moment, section.height, section.inertia)
StressField ==
    /\ pc = "forces"
    /\ LET r == stress_field(moment, section_height, inertia, points)
       IN  y_mm' = r[1] /\ stress_map' = r[2]
    /\ pc' = "stressed"
    /\ UNCHANGED <<length, nodes, x, error, segments_df, point_df, q_a, loads_a,
                   q_b, loads_b, q_profile, point_loads, shear, moment,
                   curvature, rotation, deflection, shear_gamma, youngs,
                   inertia, area, shear_modulus, shear_coeff, theory,
                   section_height, points>>

NextStress == ShearMoment \/ StressField
SpecStress == InitStress /\ [][NextStress]_vars

\* The largest absolute value in a matrix.
MaxAbs(m) ==
    LET entries == {RAbs(m[r][c]) : r \in 1..Len(m), c \in 1..Len(m[1])}
    IN  CHOOSE e \in entries : \A f \in entries : RLe(f, e)

\* A single positive point load at midspan, midspan a mesh node, no
\* distributed load, a section with positive height and inertia.
MidspanCase ==
    /\ Len(point_loads) = 1
    /\ PositionOf(point_loads[1]) = RMul(RHalf, length)
    /\ \E i \in 1..nodes : x[i] = RMul(RHalf, length)
    /\ RLt(RZero, LoadOf(point_loads[1]))
    /\ IsZeroArray(q_profile, nodes)
    /\ RLt(RZero, section_height) /\ RLt(RZero, inertia)
MidspanLoad == LoadOf(point_loads[1])
\* (P*L/k)*(h/2)/I in MPa.
PeakStress(k) ==
    RDiv(RDiv(RMul(RDiv(RMul(MidspanLoad, length), RInt(k)),
                   RMul(section_height, RHalf)),
              inertia),
         RInt(PaPerMPa))

\* C5 as stated (stress field scaling): the largest absolute stress under a
\* single midspan point load equals (P*L/4)*(h/2)/I in MPa.
C5_PeakQuarterPL ==
    (pc = "stressed" /\ MidspanCase) => MaxAbs(stress_map) = PeakStress(4)

\* C5 as amended: the largest absolute stress under a single midspan point
\* load equals (P*L/2)*(h/2)/I in MPa, the moment at x = 0 being P*L/2.
C5_PeakHalfPL ==
    (pc = "stressed" /\ MidspanCase) => MaxAbs(stress_map) = PeakStress(2)
C5_Witness ==
    /\ pc = "stressed" /\ MidspanCase
    /\ length = RInt(8) /\ MidspanLoad = RInt(120000)
    /\ section_height = Rat(2, 5) /\ inertia = Rat(2, 3125)
    /\ Len(stress_map) = 3
    /\ MaxAbs(stress_map) = RInt(150)

\* C6 (degenerate section): with section_height <= 0 or inertia <= 0
\* stress_field raises nothing and returns a matrix of exactly one row, all
\* zero, one column per mesh point; otherwise the matrix has `points` rows.
C6_DegenerateSection ==
    pc = "stressed" =>
        IF RLe(section_height, RZero) \/ RLe(inertia, RZero)
        THEN /\ error = "none"
             /\ Len(stress_map) = 1
             /\ IsZeroArray(stress_map[1], Len(moment))
        ELSE /\ Len(stress_map) = points
             /\ \A r \in 1..points : Len(stress_map[r]) = Len(moment)
C6_Witness ==
    /\ pc = "stressed"
    /\ inertia = RZero /\ RLt(RZero, section_height)
    /\ ~IsZeroArray(moment, nodes)
    /\ Len(stress_map) = 1 /\ IsZeroArray(stress_map[1], nodes)

(***************************************************************************)
(* The mesh generator on arbitrary arguments.                              *)
(***************************************************************************)
InitMesh ==
    /\ pc = "start"
    /\ length \in {Rat(k, 2) : k \in (-4)..(2 * MaxLength)}
    /\ nodes \in (-2)..MaxNodes
    /\ x = <<>>
    /\ error = "none"
    /\ NoTables /\ NoParts
    /\ q_profile = <<>> /\ point_loads = <<>>
    /\ NoForces /\ NoDeflection /\ NoStress
    /\ youngs = RInt(2) /\ inertia = Rat(1, 3)
    /\ NoShearTheory /\ NoSection

\* x = discretize(length, nodes)
Discretize ==
    /\ pc = "start"
    /\ IF discretize_error(length, nodes) # "none"
       THEN /\ error' = discretize_error(length, nodes)
            /\ pc' = "failed"
            /\ x' = x
       ELSE /\ x' = discretize(length, nodes)
            /\ pc' = "mesh"
            /\ error' = error
    /\ UNCHANGED <<length, nodes, segments_df, point_df, q_a, loads_a, q_b,
                   loads_b, q_profile, point_loads, shear, moment, curvature,
                   rotation, deflection, shear_gamma, youngs, inertia, area,
                   shear_modulus, shear_coeff, theory, section_height, points,
                   y_mm, stress_map>>

NextMesh == Discretize
SpecMesh == InitMesh /\ [][NextMesh]_vars

\* C7 (fail-fast on invalid mesh input): discretize ends in an error and
\* produces no mesh whenever length <= 0 or nodes < 2, and returns a mesh
\* only when length > 0 and nodes >= 2.
C7_FailFast ==
    pc # "start" =>
        IF RLe(length, RZero) \/ nodes < 2
        THEN pc = "failed" /\ error # "none" /\ x = <<>>
        ELSE pc = "mesh" /\ error = "none" /\ Len(x) = nodes

(***************************************************************************)
(* The segment-table assembler.                                            *)
(***************************************************************************)
Spans == {<<RZero, RInt(1)>>, <<Rat(1, 2), Rat(-1, 2)>>,
          <<Rat(1, 4), Rat(3, 2)>>, <<RInt(1), Rat(1, 2)>>}
SegmentRows ==
    {[label |-> "S1", magnitude |-> RInt(1), start |-> RZero, end |-> RInt(1),
      enabled |-> FALSE]}
    \cup {[label |-> "S1", magnitude |-> m, start |-> sp[1], end |-> sp[2],
           enabled |-> TRUE] : m \in {RZero, RInt(1), RInt(-2)}, sp \in Spans}

InitProfile ==
    /\ pc = "mesh"
    /\ length = RInt(2)
    /\ nodes \in 2..MaxNodes
    /\ x = discretize(length, nodes)
    /\ error = "none"
    /\ segments_df \in {None} \cup {DataFrame(r) : r \in SeqUpTo(SegmentRows, MaxRows)}
    /\ point_df = None
    /\ NoParts
    /\ q_profile = <<>> /\ point_loads = <<>>
    /\ NoForces /\ NoDeflection /\ NoStress
    /\ youngs = RInt(2) /\ inertia = Rat(1, 3)
    /\ NoShearTheory /\ NoSection

\* q_segment = segmented_profile(x, length, distributed_df)
SegmentedProfile ==
    /\ pc = "mesh"
    /\ q_profile' = segmented_profile(x, length, segments_df)
    /\ pc' = "profile"
    /\ UNCHANGED <<length, nodes, x, error, segments_df, point_df, q_a, loads_a,
                   q_b, loads_b, point_loads, shear, moment, curvature,
                   rotation, deflection, shear_gamma, youngs, inertia, area,
                   shear_modulus, shear_coeff, theory, section_height, points,
                   y_mm, stress_map>>

NextProfile == SegmentedProfile
SpecProfile == InitProfile /\ [][NextProfile]_vars

\* A fraction clamped to [0, 1].
Clamped(v) == IF RLt(v, RZero) THEN RZero ELSE IF RLt(RInt(1), v) THEN RInt(1) ELSE v
\* The rows of the segment table (none for an absent table).
SegmentTable == segments_df.rows
\* Row k is enabled and its clamped, ordered interval contains position p.
Covers(k, p) ==
    LET row == SegmentTable[k]
        s == Clamped(row.start)
        e == Clamped(row.end)
    IN  /\ row.enabled
        /\ RLe(RMul(RMin(s, e), length), p)
        /\ RLe(p, RMul(RMax(s, e), length))
\* Sum of magnitude*1000 over a set of rows of the segment table.
RECURSIVE SumRows(_)
SumRows(K) ==
    IF K = {} THEN RZero
    ELSE LET k == CHOOSE j \in K : TRUE
         IN  RAdd(RMul(SegmentTable[k].magnitude, RInt(1000)), SumRows(K \ {k}))
\* The segment table with start and end of every row exchanged.
SwappedTable ==
    IF segments_df = None THEN None
    ELSE DataFrame([k \in 1..Len(SegmentTable) |->
                      [label |-> SegmentTable[k].label,
                       magnitude |-> SegmentTable[k].magnitude,
                       start |-> SegmentTable[k].end,
                       end |-> SegmentTable[k].start,
                       enabled |-> SegmentTable[k].enabled]])

\* C9 (segmented profile assembly): at each mesh point x the profile is the
\* sum, over the enabled rows whose clamped and ordered interval contains x
\* (both ends included), of magnitude*1000; disabled rows, zero-magnitude
\* rows and an empty or absent table contribute nothing; exchanging a row's
\* start and end does not change the result.
C9_SegmentedProfile ==
    pc = "profile" =>
        /\ Len(q_profile) = nodes
        /\ \A i \in 1..nodes :
              q_profile[i] =
                  SumRows({k \in 1..Len(SegmentTable) : Covers(k, x[i])})
        /\ (\A k \in 1..Len(SegmentTable) :
                ~SegmentTable[k].enabled \/ SegmentTable[k].magnitude = RZero)
              => IsZeroArray(q_profile, nodes)
        /\ segmented_profile(x, length, SwappedTable) = q_profile
C9_Witness ==
    /\ pc = "profile" /\ nodes = MaxNodes
    /\ Len(SegmentTable) = 2
    /\ SegmentTable[1].enabled /\ SegmentTable[2].enabled
    /\ RLt(SegmentTable[1].end, SegmentTable[1].start)
    /\ RLt(RInt(1), SegmentTable[2].end)
    /\ q_profile[nodes] = RInt(-1000)
    /\ q_profile[1] = RZero

(***************************************************************************)
(* The point-load table reader.                                            *)
(***************************************************************************)
PointRows ==
    {[label |-> "P1", magnitude |-> RInt(1), position |-> Rat(5, 8),
      enabled |-> FALSE]}
    \cup {[label |-> l, magnitude |-> m, position |-> f, enabled |-> TRUE] :
            l \in {"P1", "P2"}, m \in {RZero, RInt(1), RInt(-2)},
            f \in {Rat(-1, 2), Rat(5, 8), Rat(3, 2)}}

InitPoints ==
    /\ pc = "profile"
    /\ length \in {RInt(2), Rat(1, 2)}
    /\ nodes = 2
    /\ x = discretize(length, nodes)
    /\ error = "none"
    /\ segments_df = None
    /\ point_df \in {None} \cup {DataFrame(r) : r \in SeqUpTo(PointRows, MaxRows)}
    /\ NoParts
    /\ q_profile = Zeros(nodes) /\ point_loads = <<>>
    /\ NoForces /\ NoDeflection /\ NoStress
    /\ youngs = RInt(2) /\ inertia = Rat(1, 3)
    /\ NoShearTheory /\ NoSection

\* raw_point_loads = point_loads_from_editor(point_df, length)
PointLoadsFromEditor ==
    /\ pc = "profile"
    /\ point_loads' = point_loads_from_editor(point_df, length)
    /\ pc' = "loads"
    /\ UNCHANGED <<length, nodes, x, error, segments_df, point_df, q_a, loads_a,
                   q_b, loads_b, q_profile, shear, moment, curvature, rotation,
                   deflection, shear_gamma, youngs, inertia, area,
                   shear_modulus, shear_coeff, theory, section_height, points,
                   y_mm, stress_map>>

NextPoints == PointLoadsFromEditor
SpecPoints == InitPoints /\ [][NextPoints]_vars

\* The rows of the point table (none for an absent table).
PointTable == point_df.rows
\* The rows that are enabled and have a nonzero magnitude.
KeptRows ==
    {k \in 1..Len(PointTable) :
        PointTable[k].enabled /\ PointTable[k].magnitude # RZero}
\* The j-th of them in table order.
KeptRow(j) ==
    CHOOSE k \in KeptRows : Cardinality({m \in KeptRows : m < k}) = j - 1

\* C10 (point-load ingestion): exactly one tuple per enabled row of nonzero
\* magnitude, in row order, rows sharing a label not merged; each magnitude
\* is the row's times 1000, each position the row's fraction clamped to
\* [0, 1] times length, hence within [0, length]; an empty or absent table
\* gives an empty list and no error.
C10_PointLoadIngestion ==
    pc = "loads" =>
        /\ error = "none"
        /\ Len(point_loads) = Cardinality(KeptRows)
        /\ \A j \in 1..Len(point_loads) :
              LET row == PointTable[KeptRow(j)]
              IN  /\ LoadOf(point_loads[j]) = RMul(row.magnitude, RInt(1000))
                  /\ PositionOf(point_loads[j]) = RMul(Clamped(row.position), length)
                  /\ LabelOf(point_loads[j]) = row.label
                  /\ RLe(RZero, PositionOf(point_loads[j]))
                  /\ RLe(PositionOf(point_loads[j]), length)
        /\ PointTable = <<>> => point_loads = <<>>
C10_Witness ==
    /\ pc = "loads"
    /\ Len(point_loads) = 2
    /\ LabelOf(point_loads[1]) = LabelOf(point_loads[2])
    /\ PositionOf(point_loads[1]) = length
    /\ PositionOf(point_loads[2]) = RZero
    /\ RLt(RInt(1), PointTable[1].position)
    /\ LoadOf(point_loads[1]) = RInt(-2000)

(***************************************************************************)
(* The deflection integrator under either beam theory.                     *)
(***************************************************************************)
InitTheory ==
    /\ pc = "loads"
    /\ length = RInt(2)
    /\ nodes \in 2..MaxNodes
    /\ x = discretize(length, nodes)
    /\ error = "none"
    /\ NoTables /\ NoParts
    /\ q_profile \in [1..nodes -> QValues]
    /\ point_loads \in SeqUpTo({<<RInt(1000), RZero, "P1">>,
                                 <<RInt(-2000), RMul(Rat(5, 8), length), "P2">>},
                                MaxLoads)
    /\ NoForces /\ NoDeflection /\ NoStress
    /\ youngs = RInt(2) /\ inertia = Rat(1, 3)
    /\ area = Rat(1, 20) /\ shear_modulus = RInt(3)
    /\ theory \in {"Euler-Bernoulli", "Timoshenko"}
    /\ shear_coeff \in {RZero, RInt(1), Rat(6, 5)}
    /\ NoSection

\* _, rotation, deflection, shear_gamma = integrate_deflection(x, moment,
\*     shear, E, I, A, G, shear_coeff, theory)
IntegrateDeflectionTheory ==
    /\ pc = "forces"
    /\ LET r == integrate_deflection_theory(x, moment, shear, youngs, inertia,
                    area, shear_modulus, shear_coeff, theory)
       IN  /\ curvature' = r[1] /\ rotation' = r[2]
           /\ deflection' = r[3] /\ shear_gamma' = r[4]
    /\ pc' = "deflected"
    /\ UNCHANGED <<length, nodes, x, error, segments_df, point_df, q_a, loads_a,
                   q_b, loads_b, q_profile, point_loads, shear, moment, youngs,
                   inertia, area, shear_modulus, shear_coeff, theory,
                   section_height, points, y_mm, stress_map>>

NextTheory == ShearMoment \/ IntegrateDeflectionTheory
SpecTheory == InitTheory /\ [][NextTheory]_vars

\* Deflection of the Euler-Bernoulli integrator of solver.py on the moment.
BendingDeflection == integrate_deflection(x, moment, youngs, inertia)[3]
\* Cumulative trapezoidal integral of kappa*V/(G*A).
ShearDeflection ==
    cumulative_trapezoid(
        [i \in 1..nodes |->
            RDiv(RMul(shear_coeff, shear[i]), RMul(shear_modulus, area))], x)

TrapezoidStep(f, i) ==
    RMul(RMul(RHalf, RAdd(f[i - 1], f[i])), RSub(x[i], x[i - 1]))

\* C11 (Euler-Bernoulli integration and boundary conditions): the arrays
\* integrate_deflection returns have rotation and deflection zero at the
\* first mesh point whatever the moment is; at every later point the
\* rotation is the previous rotation plus the trapezoid of the curvature
\* over the interval, the deflection the previous deflection plus the
\* trapezoid of the rotation, and the curvature is moment/(E*I) pointwise.
C11_EulerBernoulliRecurrence ==
    pc = "deflected" =>
        /\ Len(curvature) = nodes /\ Len(rotation) = nodes
        /\ Len(deflection) = nodes
        /\ rotation[1] = RZero
        /\ deflection[1] = RZero
        /\ \A i \in 1..nodes :
              curvature[i] = RDiv(moment[i], RMul(youngs, inertia))
        /\ \A i \in 2..nodes :
              /\ rotation[i] = RAdd(rotation[i - 1], TrapezoidStep(curvature, i))
              /\ deflection[i] = RAdd(deflection[i - 1], TrapezoidStep(rotation, i))
C11_Witness ==
    /\ pc = "deflected" /\ nodes = MaxNodes
    /\ moment[1] # RZero
    /\ rotation[1] = RZero /\ deflection[1] = RZero
    /\ rotation[2] # RZero /\ rotation[nodes] # rotation[2]
    /\ deflection[2] # RZero /\ deflection[nodes] # deflection[2]

(***************************************************************************)
(* The point-load table read and then solved: the reader's list goes to    *)
(* shear_moment with a distributed load on the same mesh.                  *)
(*                                                                         *)
(* The arrays of solver.py are binary floating point: every +, - and * is  *)
(* rounded to nearest, ties to even.  Fl rounds an exact value to a        *)
(* significand of Precision bits (numpy's float64 has 53; the exponent is  *)
(* not limited here), and the Fl* operators are the rounded operations.    *)
(***************************************************************************)
Precision == 11     \* bits in the significand of the rounded arithmetic

RECURSIVE Pow2(_)
Pow2(k) == IF k <= 0 THEN 1 ELSE 2 * Pow2(k - 1)

\* r / 2^e
Scale(r, e) == IF e >= 0 THEN RMul(r, Rat(1, Pow2(e))) ELSE RMul(r, RInt(Pow2(-e)))

\* The significand of a floating-point number lies in [SignificandMin,
\* SignificandTop).
SignificandTop == RInt(Pow2(Precision))
SignificandMin == RInt(Pow2(Precision - 1))

\* A positive a scaled by a power of two into that range: [m, e] with
\* a = m * 2^e, counted from the exponent e.
RECURSIVE Normalise(_, _)
Normalise(a, e) ==
    IF RLe(SignificandTop, a) THEN Normalise(RMul(a, RHalf), e + 1)
    ELSE IF RLt(a, SignificandMin) THEN Normalise(RMul(a, RInt(2)), e - 1)
    ELSE [m |-> a, e |-> e]

\* The nearest integer to a non-negative rational, ties to the even one.
RoundHalfEven(r) ==
    LET f == r.n \div r.d
        rem == r.n - f * r.d
    IN  IF 2 * rem < r.d THEN f
        ELSE IF 2 * rem > r.d THEN f + 1
        ELSE IF f % 2 = 0 THEN f ELSE f + 1

\* The floating-point number nearest to r.
Fl(r) ==
    IF r = RZero THEN RZero
    ELSE LET norm == Normalise(RAbs(r), 0)
             m == Scale(RInt(RoundHalfEven(norm.m)), -norm.e)
         IN  IF RLt(r, RZero) THEN RNeg(m) ELSE m

FlAdd(a, b) == Fl(RAdd(a, b))
FlSub(a, b) == Fl(RSub(a, b))
FlMul(a, b) == Fl(RMul(a, b))

\* np.linspace(0.0, stop, num) as computed: the step stop/(num-1) is
\* rounded, each point is its index times the step, the last one is stop.
FlLinspace(stop, num) ==
    [i \in 1..num |->
        IF i = num THEN stop ELSE FlMul(RInt(i - 1), Fl(RDiv(stop, RInt(num - 1))))]

\* dist_integral[-1]: the running sum of 0.5*(q[i] + q[i-1])*(x[i] - x[i-1]).
RECURSIVE FlDistIntegral(_, _, _)
FlDistIntegral(xs, q, i) ==
    IF i <= 1 THEN RZero
    ELSE FlAdd(FlDistIntegral(xs, q, i - 1),
               FlMul(FlMul(RHalf, FlAdd(q[i], q[i - 1])), FlSub(xs[i], xs[i - 1])))

\* sum(load for load, _, _ in point_loads), left to right.
RECURSIVE FlPointTotal(_, _)
FlPointTotal(pls, j) ==
    IF j = 0 THEN RZero ELSE FlAdd(FlPointTotal(pls, j - 1), LoadOf(pls[j]))

\* point_cumulative[-1] after the first j loads (load * 1.0 and load * 0.0
\* are exact).
RECURSIVE FlPointCumulative(_, _, _)
FlPointCumulative(xs, pls, j) ==
    IF j = 0 THEN RZero
    ELSE FlAdd(FlPointCumulative(xs, pls, j - 1), StepAt(xs, pls[j])[Len(xs)])

\* shear[-1] = reaction - dist_integral[-1] - point_cumulative[-1], with
\* reaction = total_distributed + point_total, every operation rounded.
FlShearLast(xs, q, pls) ==
    LET total_distributed == FlDistIntegral(xs, q, Len(xs))
        point_total == FlPointTotal(pls, Len(pls))
        reaction == FlAdd(total_distributed, point_total)
    IN  FlSub(FlSub(reaction, total_distributed),
              FlPointCumulative(xs, pls, Len(pls)))

\* Distributed loads of the runs: none, or 2047 N/m, whose integral over
\* the beam takes every bit of the significand.
FarEndQ == {RZero, RInt(2047)}

FarEndRows ==
    {[label |-> "P1", magnitude |-> RInt(1), position |-> Rat(5, 8),
      enabled |-> FALSE],
     [label |-> "P1", magnitude |-> RInt(1), position |-> Rat(-1, 2),
      enabled |-> TRUE],
     [label |-> "P2", magnitude |-> RInt(-2), position |-> Rat(5, 8),
      enabled |-> TRUE],
     [label |-> "P3", magnitude |-> RInt(3), position |-> Rat(3, 2),
      enabled |-> TRUE]}

InitFarEnd ==
    /\ pc = "profile"
    /\ length \in {RInt(2), Rat(1, 2)}
    /\ nodes \in 2..MaxNodes
    /\ x = discretize(length, nodes)
    /\ error = "none"
    /\ segments_df = None
    /\ point_df \in {None} \cup {DataFrame(r) : r \in SeqUpTo(FarEndRows, MaxRows)}
    /\ NoParts
    /\ q_profile \in [1..nodes -> FarEndQ] /\ point_loads = <<>>
    /\ NoForces /\ NoDeflection /\ NoStress
    /\ youngs = RInt(2) /\ inertia = Rat(1, 3)
    /\ NoShearTheory /\ NoSection

NextFarEnd == PointLoadsFromEditor \/ ShearMoment
SpecFarEnd == InitFarEnd /\ [][NextFarEnd]_vars

\* The inputs of the solve are floating-point numbers already.
FloatInputs ==
    /\ Fl(length) = length
    /\ \A i \in 1..nodes : Fl(q_profile[i]) = q_profile[i]
    /\ \A j \in 1..Len(point_loads) :
          /\ Fl(LoadOf(point_loads[j])) = LoadOf(point_loads[j])
          /\ Fl(PositionOf(point_loads[j])) = PositionOf(point_loads[j])
\* The mesh as computed, the rounded last shear value over it and the two
\* totals it is made of.
FlMesh == FlLinspace(length, nodes)
ShearLast == FlShearLast(FlMesh, q_profile, point_loads)
DistTotal == FlDistIntegral(FlMesh, q_profile, nodes)
PointTotal == FlPointTotal(point_loads, Len(point_loads))

====
